---- MODULE Spec2Model ----
(***************************************************************************)
(* Model of the kanban board of src/kanban.py: Task, Column, Board and the *)
(* operations that place, advance, move, remove and clean tasks.           *)
(*                                                                         *)
(* Task objects live in `heap` (an object reference is an index into it,   *)
(* None is 0); columns hold references, as Python lists do.  `sink` is the *)
(* contents of finished_tasks.txt, one entry per write block.  `op` and    *)
(* `ret` record the call that has just returned (its name, its arguments   *)
(* and the columns that held the task id when it started) and what it      *)
(* returned or raised; the caller then goes back to its prompt (the loop   *)
(* of Kanban.run) and only there issues the next call.                     *)
(* The interpreter runs with assertions enabled (the default).             *)
(* A raised exception propagates to the caller; the board object stays as  *)
(* it was at the raise.                                                    *)
(*                                                                         *)
(* The timestamp text of a history entry comes from the wall clock and is  *)
(* left out of the entry.                                                  *)
(***************************************************************************)
EXTENDS Integers, Sequences, FiniteSets, TLC

VARIABLES LAST_TASK_ID, heap, m_columns, sink, op, ret, disk, threads, lock

vars == <<LAST_TASK_ID, heap, m_columns, sink, op, ret, disk, threads, lock>>

\* ---------------------------------------------------------------- bounds
MaxTasks == 2
MaxHistory == 2
NumColumns == 2

\* ------------------------------------------------------------- constants
ColumnNames == <<"New", "Analysis", "Development", "Test", "Done">>
TaskNames == {"A"}

None == 0

Ret(v) == [raised |-> "None", value |-> v]
Raise(e) == [raised |-> e, value |-> "None"]

\* ------------------------------------------------------------------ Task
TaskInit(name, id) == [m_id |-> id, m_name |-> name, m_messages |-> <<>>]

TaskStr(task) == ToString(task.m_id) \o ". " \o task.m_name

add_message(h, ref, msg) ==
    [h EXCEPT ![ref].m_messages = Append(@, msg)]

\* ---------------------------------------------------------------- Column
ColumnInit(name) == [m_name |-> name, m_tasks |-> <<>>]

InSeq(x, s) == \E i \in 1..Len(s) : s[i] = x

EntryMessage(name) == "> " \o name \o " : "

\* Column.add_task that keeps the column sorted by creation order
ColumnAddTask_Sorted(b, c, ref) ==
    IF ~InSeq(ref, b.cols[c].m_tasks)
    THEN [b |-> [b EXCEPT !.cols[c].m_tasks =
                        SelectSeq(@, LAMBDA r : r < ref) \o <<ref>>
                            \o SelectSeq(@, LAMBDA r : r > ref),
                          !.heap = add_message(@, ref, EntryMessage(b.cols[c].m_name))],
          value |-> TRUE]
    ELSE [b |-> b, value |-> FALSE]

\* Column.add_task that puts the task in front (insert(0, task) for append)
ColumnAddTask_Front(b, c, ref) ==
    IF ~InSeq(ref, b.cols[c].m_tasks)
    THEN [b |-> [b EXCEPT !.cols[c].m_tasks = <<ref>> \o @,
                          !.heap = add_message(@, ref, EntryMessage(b.cols[c].m_name))],
          value |-> TRUE]
    ELSE [b |-> b, value |-> FALSE]

\* Column.add_task that forgets the history entry
ColumnAddTask_NoMessage(b, c, ref) ==
    IF ~InSeq(ref, b.cols[c].m_tasks)
    THEN [b |-> [b EXCEPT !.cols[c].m_tasks = Append(@, ref)], value |-> TRUE]
    ELSE [b |-> b, value |-> FALSE]

\* Column.add_task on column c of board state b = [cols, heap, sink]
ColumnAddTask(b, c, ref) ==
    IF ~InSeq(ref, b.cols[c].m_tasks)
    THEN [b |-> [b EXCEPT !.cols[c].m_tasks = Append(@, ref),
                          !.heap = add_message(@, ref, EntryMessage(b.cols[c].m_name))],
          value |-> TRUE]
    ELSE [b |-> b, value |-> FALSE]

SelectedTasks(b, c, task_id) ==
    SelectSeq(b.cols[c].m_tasks, LAMBDA r : b.heap[r].m_id = task_id)

\* Column.remove_task that empties the column (m_tasks = [] for the filter)
ColumnRemoveTask_Clear(b, c, task_id) ==
    LET selected_tasks == SelectedTasks(b, c, task_id)
    IN IF selected_tasks # <<>>
       THEN [b |-> [b EXCEPT !.cols[c].m_tasks = <<>>],
             value |-> selected_tasks[1]]
       ELSE [b |-> b, value |-> None]

\* Column.remove_task that returns the object and leaves it in the column
ColumnRemoveTask_Keep(b, c, task_id) ==
    LET selected_tasks == SelectedTasks(b, c, task_id)
    IN IF selected_tasks # <<>>
       THEN [b |-> b, value |-> selected_tasks[1]]
       ELSE [b |-> b, value |-> None]

\* Column.remove_task: the removed object (None when there is none)
ColumnRemoveTask(b, c, task_id) ==
    LET selected_tasks == SelectedTasks(b, c, task_id)
    IN IF selected_tasks # <<>>
       THEN [b |-> [b EXCEPT !.cols[c].m_tasks =
                        SelectSeq(@, LAMBDA r : ~InSeq(r, selected_tasks))],
             value |-> selected_tasks[1]]
       ELSE [b |-> b, value |-> None]

ColumnContains(b, c, task_id) == Len(SelectedTasks(b, c, task_id)) > 0

\* ----------------------------------------------------------------- Board
\* Python list indexing: 1-based position of m_columns[i], 0 for IndexError
PyIndex(i, len) ==
    IF i >= 0 /\ i < len THEN i + 1
    ELSE IF i < 0 /\ i >= -len THEN len + i + 1
    ELSE 0

\* [col.remove_task(task_id) for col in self.m_columns], None filtered out
RECURSIVE RemoveFromAll(_, _, _)
RemoveFromAll(b, c, task_id) ==
    IF c > Len(b.cols) THEN [b |-> b, value |-> <<>>]
    ELSE LET r == ColumnRemoveTask(b, c, task_id)
             rest == RemoveFromAll(r.b, c + 1, task_id)
         IN [b |-> rest.b,
             value |-> IF r.value # None THEN <<r.value>> \o rest.value
                       ELSE rest.value]

BoardAddTask(b, column_id, ref) ==
    IF column_id < Len(b.cols)
    THEN IF PyIndex(column_id, Len(b.cols)) = 0
         THEN [b |-> b, ret |-> Raise("IndexError")]
         ELSE [b |-> ColumnAddTask(b, PyIndex(column_id, Len(b.cols)), ref).b,
               ret |-> Ret(TRUE)]
    ELSE [b |-> b, ret |-> Ret(FALSE)]

\* Board.move_task whose last line returns True
BoardMoveTask_TrueWhenAbsent(b, column_id, task_id) ==
    IF column_id < Len(b.cols)
    THEN LET removed == RemoveFromAll(b, 1, task_id)
             moving_tasks == removed.value
         IN IF moving_tasks # <<>>
            THEN IF Len(moving_tasks) # 1
                 THEN [b |-> removed.b, ret |-> Raise("AssertionError")]
                 ELSE IF PyIndex(column_id, Len(b.cols)) = 0
                 THEN [b |-> removed.b, ret |-> Raise("IndexError")]
                 ELSE [b |-> ColumnAddTask(removed.b,
                                 PyIndex(column_id, Len(b.cols)),
                                 moving_tasks[1]).b,
                       ret |-> Ret(TRUE)]
            ELSE [b |-> removed.b, ret |-> Ret(TRUE)]
    ELSE [b |-> b, ret |-> Ret(TRUE)]

BoardMoveTask(b, column_id, task_id) ==
    IF column_id < Len(b.cols)
    THEN LET removed == RemoveFromAll(b, 1, task_id)
             moving_tasks == removed.value
         IN IF moving_tasks # <<>>
            THEN IF Len(moving_tasks) # 1
                 THEN [b |-> removed.b, ret |-> Raise("AssertionError")]
                 ELSE IF PyIndex(column_id, Len(b.cols)) = 0
                 THEN [b |-> removed.b, ret |-> Raise("IndexError")]
                 ELSE [b |-> ColumnAddTask(removed.b,
                                 PyIndex(column_id, Len(b.cols)),
                                 moving_tasks[1]).b,
                       ret |-> Ret(TRUE)]
            ELSE [b |-> removed.b, ret |-> Ret(FALSE)]
    ELSE [b |-> b, ret |-> Ret(FALSE)]

\* the sink entry without the history lines
SinkEntry_NoHistory(task) == [line |-> TaskStr(task), messages |-> <<>>]

SinkEntry(task) == [line |-> TaskStr(task), messages |-> task.m_messages]

\* Board.advance that forgets col.remove_task(task_id)
BoardAdvance_NoRemove(b, task_id) ==
    LET selected_column ==
            SelectSeq([i \in 1..Len(b.cols) |-> i],
                      LAMBDA i : ColumnContains(b, i, task_id))
    IN IF selected_column # <<>>
       THEN IF Len(selected_column) # 1
            THEN [b |-> b, ret |-> Raise("AssertionError")]
            ELSE LET col == selected_column[1]
                     task == SelectedTasks(b, col, task_id)[1]
                 IN IF col + 1 <= Len(b.cols)
                    THEN [b |-> ColumnAddTask(b, col + 1, task).b,
                          ret |-> Ret(TRUE)]
                    ELSE [b |-> [b EXCEPT !.sink = Append(@, SinkEntry(b.heap[task]))],
                          ret |-> Ret(TRUE)]
       ELSE [b |-> b, ret |-> Ret(FALSE)]

\* Board.advance that writes a completed task to the sink and leaves it in
\* the last column
BoardAdvance_KeepsCompleted(b, task_id) ==
    LET selected_column ==
            SelectSeq([i \in 1..Len(b.cols) |-> i],
                      LAMBDA i : ColumnContains(b, i, task_id))
    IN IF selected_column # <<>>
       THEN LET col == selected_column[1]
                removed == ColumnRemoveTask(b, col, task_id)
                task == removed.value
            IN IF col + 1 <= Len(b.cols)
               THEN [b |-> ColumnAddTask(removed.b, col + 1, task).b,
                     ret |-> Ret(TRUE)]
               ELSE [b |-> [b EXCEPT !.sink = Append(@, SinkEntry(b.heap[task]))],
                     ret |-> Ret(TRUE)]
       ELSE [b |-> b, ret |-> Ret(FALSE)]

\* Board.advance that puts the task back into the column it came from
BoardAdvance_Stay(b, task_id) ==
    LET selected_column ==
            SelectSeq([i \in 1..Len(b.cols) |-> i],
                      LAMBDA i : ColumnContains(b, i, task_id))
    IN IF selected_column # <<>>
       THEN LET col == selected_column[1]
                removed == ColumnRemoveTask(b, col, task_id)
            IN [b |-> ColumnAddTask(removed.b, col, removed.value).b,
                ret |-> Ret(TRUE)]
       ELSE [b |-> b, ret |-> Ret(FALSE)]

BoardAdvance(b, task_id) ==
    LET selected_column ==
            SelectSeq([i \in 1..Len(b.cols) |-> i],
                      LAMBDA i : ColumnContains(b, i, task_id))
    IN IF selected_column # <<>>
       THEN IF Len(selected_column) # 1
            THEN [b |-> b, ret |-> Raise("AssertionError")]
            ELSE LET col == selected_column[1]
                     new_col == col + 1
                     removed == ColumnRemoveTask(b, col, task_id)
                     task == removed.value
                 IN IF ~(task # None /\ new_col <= Len(b.cols) + 1)
                    THEN [b |-> removed.b, ret |-> Raise("AssertionError")]
                    ELSE IF new_col <= Len(b.cols)
                    THEN [b |-> ColumnAddTask(removed.b, new_col, task).b,
                          ret |-> Ret(TRUE)]
                    ELSE [b |-> [removed.b EXCEPT !.sink =
                                    Append(@, SinkEntry(removed.b.heap[task]))],
                          ret |-> Ret(TRUE)]
       ELSE [b |-> b, ret |-> Ret(FALSE)]

\* the loop of clean_completed over the captured ids; stops at a raise
RECURSIVE AdvanceEach(_, _, _)
AdvanceEach(b, ids, k) ==
    IF k > Len(ids) THEN [b |-> b, ret |-> Ret(Len(ids))]
    ELSE LET r == BoardAdvance(b, ids[k])
         IN IF r.ret.raised # "None" THEN r
            ELSE AdvanceEach(r.b, ids, k + 1)

\* Board.clean_completed that captures the ids of m_columns[0]
BoardCleanCompleted_First(b) ==
    LET first == b.cols[1].m_tasks
        first_column_ids == [i \in 1..Len(first) |-> b.heap[first[i]].m_id]
    IN AdvanceEach(b, first_column_ids, 1)

BoardCleanCompleted(b) ==
    LET last == b.cols[Len(b.cols)].m_tasks
        last_column_ids == [i \in 1..Len(last) |-> b.heap[last[i]].m_id]
    IN AdvanceEach(b, last_column_ids, 1)

BoardRemoveTask(b, task_id) ==
    LET removed == RemoveFromAll(b, 1, task_id)
        removing_tasks == removed.value
    IN IF Len(removing_tasks) # 1
       THEN [b |-> removed.b, ret |-> Raise("AssertionError")]
       ELSE [b |-> removed.b, ret |-> Ret(Len(removing_tasks) > 0)]

\* kanban.dat does not exist
NoFile == [exists |-> FALSE, last |-> 0, objs |-> <<>>, cols |-> <<>>]

\* the Task objects pickle meets, walking the columns and their task lists
RECURSIVE Reachable(_, _)
Reachable(cols, c) ==
    IF c = 0 THEN <<>> ELSE Reachable(cols, c - 1) \o cols[c].m_tasks

\* pickle's memo: every object is written once, where it is first met
RECURSIVE Memo(_, _)
Memo(s, k) ==
    IF k = 0 THEN <<>>
    ELSE LET d == Memo(s, k - 1)
         IN IF InSeq(s[k], d) THEN d ELSE Append(d, s[k])

\* pickle.dump(Task.LAST_TASK_ID), pickle.dump(self.m_board): the counter,
\* then the objects of the board in memo order, each task list written as
\* references into the memo
Pickle(last, b) ==
    LET all == Reachable(b.cols, Len(b.cols))
        memo == Memo(all, Len(all))
    IN [exists |-> TRUE,
        last |-> last,
        objs |-> [i \in 1..Len(memo) |-> b.heap[memo[i]]],
        cols |-> [c \in 1..Len(b.cols) |->
                    [m_name |-> b.cols[c].m_name,
                     m_tasks |-> [i \in 1..Len(b.cols[c].m_tasks) |->
                                    CHOOSE j \in 1..Len(memo) :
                                        memo[j] = b.cols[c].m_tasks[i]]]]]

\* Kanban.save
KanbanSave(last, b) == [disk |-> Pickle(last, b), ret |-> Ret(TRUE)]

\* Kanban.load that reads the board and leaves the counter alone
KanbanLoad_KeepCounter(last, b, d) ==
    IF d.exists
    THEN [last |-> last,
          b |-> [b EXCEPT !.cols = d.cols, !.heap = d.objs],
          ret |-> Ret(TRUE)]
    ELSE [last |-> last, b |-> b, ret |-> Ret(FALSE)]

\* Kanban.load: the counter and a Board of newly built objects; the objects
\* of the replaced board are no longer referenced
KanbanLoad(last, b, d) ==
    IF d.exists
    THEN [last |-> d.last,
          b |-> [b EXCEPT !.cols = d.cols, !.heap = d.objs],
          ret |-> Ret(TRUE)]
    ELSE [last |-> last, b |-> b, ret |-> Ret(FALSE)]

\* Column.get_contents: a dict with one key
ColumnGetContents(b, c) ==
    [key |-> b.cols[c].m_name,
     value |-> [i \in 1..Len(b.cols[c].m_tasks) |->
                    TaskStr(b.heap[b.cols[c].m_tasks[i]])]]

\* ChainMap.__iter__: the keys of the maps taken from the last map to the
\* first, each key at the place where it is first met
RECURSIVE ChainMapIter(_, _)
ChainMapIter(maps, k) ==
    IF k = 0 THEN <<>>
    ELSE LET d == ChainMapIter(maps, k - 1)
             key == maps[Len(maps) + 1 - k].key
         IN IF InSeq(key, d) THEN d ELSE Append(d, key)

\* ChainMap.__getitem__ that lets a later map overwrite (dict.update order)
ChainMapGetItem_Last(maps, key) ==
    maps[CHOOSE i \in 1..Len(maps) :
            /\ maps[i].key = key
            /\ \A j \in 1..Len(maps) : maps[j].key = key => j <= i].value

\* ChainMap.__getitem__: the value of the first map that has the key
ChainMapGetItem(maps, key) ==
    maps[CHOOSE i \in 1..Len(maps) :
            /\ maps[i].key = key
            /\ \A j \in 1..Len(maps) : maps[j].key = key => j >= i].value

\* Board.get_contents: dict(ChainMap(*[col.get_contents() ...])), an ordered
\* mapping written as the sequence of its items
BoardGetContents(b) ==
    LET maps == [c \in 1..Len(b.cols) |-> ColumnGetContents(b, c)]
        keys == ChainMapIter(maps, Len(maps))
    IN [k \in 1..Len(keys) |->
            [key |-> keys[k], value |-> ChainMapGetItem(maps, keys[k])]]

\* ---------------------------------------------------------------- state
Cur == [cols |-> m_columns, heap |-> heap, sink |-> sink]

\* the columns (0-based, as in the code) that hold task_id
Owners(b, task_id) ==
    SelectSeq([i \in 1..Len(b.cols) |-> i - 1],
              LAMBDA i : ColumnContains(b, i + 1, task_id))

Call(name, column_id, task_id) ==
    [name |-> name, column_id |-> column_id, task_id |-> task_id,
     owners |-> Owners(Cur, task_id)]

\* the objects a caller can hold: every Task constructed so far
TaskRefs == 1..Len(heap)

Bounded(b) ==
    /\ \A r \in 1..Len(b.heap) : Len(b.heap[r].m_messages) <= MaxHistory
    /\ Len(b.sink) <= MaxTasks

\* the caller is at its prompt: no call has a result pending
Idle == [name |-> "prompt", column_id |-> 0, task_id |-> 0, owners |-> <<>>]

\* the callers of a concurrent host, each making one call on the board
Threads == {1, 2}

\* a caller that has not called yet
NotStarted ==
    [pc |-> "idle", call |-> Idle, k |-> 0, found |-> <<>>,
     task |-> None, dest |-> 0, ret |-> Ret(FALSE)]

\* the board as the code has it: no lock anywhere
NoLock == [coarse |-> FALSE, holder |-> 0]

\* the call `o`, issued at the prompt, ends in result r = [b, ret]
Finish(o, result) ==
    /\ op = Idle
    /\ \E r \in {result} :
          /\ Bounded(r.b)
          /\ m_columns' = r.b.cols
          /\ heap' = r.b.heap
          /\ sink' = r.b.sink
          /\ op' = o
          /\ ret' = r.ret
          /\ UNCHANGED <<threads, lock>>

ColumnIds == (0 - (NumColumns + 1))..NumColumns
TaskIds == 0..MaxTasks

Init ==
    /\ LAST_TASK_ID = 0
    /\ heap = <<>>
    /\ m_columns = [i \in 1..NumColumns |-> ColumnInit(ColumnNames[i])]
    /\ sink = <<>>
    /\ op = Idle
    /\ ret = Ret(FALSE)
    /\ disk = NoFile
    /\ threads = [t \in Threads |-> NotStarted]
    /\ lock = NoLock

\* Task.__init__ that leaves the counter where it was
TaskNew_NoIncrement(b, last, name) ==
    [b |-> [b EXCEPT !.heap = Append(@, TaskInit(name, last))],
     ref |-> Len(b.heap) + 1,
     last |-> last]

\* Task.__init__: the new object takes the counter value, the counter moves on
TaskNew(b, last, name) ==
    [b |-> [b EXCEPT !.heap = Append(@, TaskInit(name, last))],
     ref |-> Len(b.heap) + 1,
     last |-> last + 1]

\* Kanban._new_task: Task(name), then Board.add_task(0, task)
createTask(name) ==
    /\ LAST_TASK_ID < MaxTasks
    /\ LET t == TaskNew(Cur, LAST_TASK_ID, name)
           r == BoardAddTask(t.b, 0, t.ref)
       IN /\ Finish(Call("createTask", 0, t.b.heap[t.ref].m_id),
                    [b |-> r.b,
                     ret |-> IF r.ret.raised = "None"
                             THEN Ret(t.b.heap[t.ref].m_id) ELSE r.ret])
          /\ LAST_TASK_ID' = t.last
          /\ UNCHANGED disk

advanceTask(task_id) ==
    /\ Finish(Call("advance", 0, task_id),
              BoardAdvance(Cur, task_id))
    /\ UNCHANGED <<LAST_TASK_ID, disk>>

moveTask(column_id, task_id) ==
    /\ Finish(Call("moveTask", column_id, task_id),
              BoardMoveTask(Cur, column_id, task_id))
    /\ UNCHANGED <<LAST_TASK_ID, disk>>

removeTask(task_id) ==
    /\ Finish(Call("removeTask", 0, task_id),
              BoardRemoveTask(Cur, task_id))
    /\ UNCHANGED <<LAST_TASK_ID, disk>>

cleanCompleted ==
    /\ Finish(Call("cleanCompleted", 0, 0),
              BoardCleanCompleted(Cur))
    /\ UNCHANGED <<LAST_TASK_ID, disk>>

\* Kanban.run: the handler has returned, the loop reads the next command
prompt ==
    /\ op # Idle
    /\ op' = Idle
    /\ ret' = Ret(FALSE)
    /\ UNCHANGED <<LAST_TASK_ID, heap, m_columns, sink, disk, threads, lock>>

Next ==
    \/ prompt
    \/ \E name \in TaskNames : createTask(name)
    \/ \E task_id \in TaskIds : advanceTask(task_id)
    \/ \E column_id \in ColumnIds, task_id \in TaskIds : moveTask(column_id, task_id)
    \/ \E task_id \in TaskIds : removeTask(task_id)
    \/ cleanCompleted

Spec == Init /\ [][Next]_vars

\* Task(name) by a caller of Board, not placed anywhere
newTask(name) ==
    /\ LAST_TASK_ID < MaxTasks
    /\ LET t == TaskNew(Cur, LAST_TASK_ID, name)
       IN /\ Finish(Call("Task", 0, t.b.heap[t.ref].m_id),
                    [b |-> t.b, ret |-> Ret(t.ref)])
          /\ LAST_TASK_ID' = t.last
          /\ UNCHANGED disk

\* Board.add_task(column_id, task) with any Task object and any index
addTask(column_id, task) ==
    /\ Finish(Call("addTask", column_id, heap[task].m_id),
              BoardAddTask(Cur, column_id, task))
    /\ UNCHANGED <<LAST_TASK_ID, disk>>

\* the operations of Board, called directly
NextBoard ==
    \/ prompt
    \/ \E name \in TaskNames : newTask(name)
    \/ \E column_id \in ColumnIds, task \in TaskRefs : addTask(column_id, task)
    \/ \E task_id \in TaskIds : advanceTask(task_id)
    \/ \E column_id \in ColumnIds, task_id \in TaskIds : moveTask(column_id, task_id)
    \/ \E task_id \in TaskIds : removeTask(task_id)
    \/ cleanCompleted

SpecBoard == Init /\ [][NextBoard]_vars

\* Kanban._list_tasks: Board.get_contents, the board is only read
getContents ==
    /\ Finish(Call("contents", 0, 0),
              [b |-> Cur, ret |-> Ret(BoardGetContents(Cur))])
    /\ UNCHANGED <<LAST_TASK_ID, disk>>

\* the column names Kanban.__init__ is given: any names, repeated or not
ColumnNameLists ==
    [1..NumColumns -> {ColumnNames[i] : i \in 1..NumColumns}]

InitContents ==
    /\ LAST_TASK_ID = 0
    /\ heap = <<>>
    /\ \E names \in ColumnNameLists :
          m_columns = [i \in 1..NumColumns |-> ColumnInit(names[i])]
    /\ sink = <<>>
    /\ op = Idle
    /\ ret = Ret(FALSE)
    /\ disk = NoFile
    /\ threads = [t \in Threads |-> NotStarted]
    /\ lock = NoLock

\* the commands ADD, ADVANCE and LIST on a board with any column names
NextContents ==
    \/ prompt
    \/ \E name \in TaskNames : createTask(name)
    \/ \E task_id \in TaskIds : advanceTask(task_id)
    \/ getContents

SpecContents == InitContents /\ [][NextContents]_vars

\* Kanban.save(filename)
save ==
    /\ Finish(Call("save", 0, 0),
              [b |-> Cur, ret |-> KanbanSave(LAST_TASK_ID, Cur).ret])
    /\ disk' = KanbanSave(LAST_TASK_ID, Cur).disk
    /\ UNCHANGED LAST_TASK_ID

\* Kanban.load(filename)
load ==
    /\ LET r == KanbanLoad(LAST_TASK_ID, Cur, disk)
       IN /\ Finish(Call("load", 0, 0), [b |-> r.b, ret |-> r.ret])
          /\ LAST_TASK_ID' = r.last
    /\ UNCHANGED disk

\* a new process: the counter is 0, Kanban(columns) is built and, if the
\* file exists, loaded; the files stay as the last process left them
start ==
    /\ LET fresh == [cols |-> [i \in 1..NumColumns |-> ColumnInit(ColumnNames[i])],
                     heap |-> <<>>, sink |-> sink]
           r == KanbanLoad(0, fresh, disk)
       IN /\ Finish(Call("start", 0, 0), [b |-> r.b, ret |-> r.ret])
          /\ LAST_TASK_ID' = r.last
    /\ UNCHANGED disk

\* the commands ADD, ADVANCE and CLEAN, with save, load and a new process
NextPersist ==
    \/ prompt
    \/ \E name \in TaskNames : createTask(name)
    \/ \E task_id \in TaskIds : advanceTask(task_id)
    \/ cleanCompleted
    \/ save
    \/ load
    \/ start

SpecPersist == Init /\ [][NextPersist]_vars

NoneStarted == \A t \in Threads : threads[t].pc = "idle"

\* a coarse lock, where the host has one, lets a caller run only when no
\* other caller is inside a call
MayRun(t) == lock.coarse => lock.holder \in {0, t}

Return(th, r) == [th EXCEPT !.pc = "done", !.ret = r]

\* caller t has made one step of its call: the board is b, its own state th;
\* the lock is held from the call's first step to its return
Commit(t, b, th) ==
    /\ m_columns' = b.cols
    /\ heap' = b.heap
    /\ sink' = b.sink
    /\ threads' = [threads EXCEPT ![t] = th]
    /\ lock' = IF lock.coarse
               THEN [lock EXCEPT !.holder = IF th.pc = "done" THEN 0 ELSE t]
               ELSE lock
    /\ UNCHANGED <<LAST_TASK_ID, op, ret, disk>>

\* caller t enters Board.advance, Board.move_task or Board.remove_task for
\* a task that is on the board, the same task as the other caller's
begin(t, name, column_id, task_id) ==
    /\ op = Idle
    /\ threads[t].pc = "idle"
    /\ MayRun(t)
    /\ IF NoneStarted THEN Owners(Cur, task_id) # <<>>
       ELSE \A u \in Threads :
               threads[u].pc # "idle" => threads[u].call.task_id = task_id
    /\ LET th == [NotStarted EXCEPT !.call = Call(name, column_id, task_id),
                                    !.k = 1]
       IN Commit(t, Cur,
                 IF name = "advance" THEN [th EXCEPT !.pc = "contains"]
                 ELSE IF name = "moveTask" /\ ~(column_id < Len(m_columns))
                 THEN Return(th, Ret(FALSE))
                 ELSE [th EXCEPT !.pc = "removeAll"])

\* Board.advance, one col.contains(task_id) of the filter; after the last
\* column the emptiness test and the assertion on selected_column
containsStep(t) ==
    /\ threads[t].pc = "contains"
    /\ MayRun(t)
    /\ LET th == threads[t]
           selected_column ==
               IF ColumnContains(Cur, th.k, th.call.task_id)
               THEN Append(th.found, th.k) ELSE th.found
           seen == [th EXCEPT !.found = selected_column]
       IN Commit(t, Cur,
                 IF th.k < Len(m_columns) THEN [seen EXCEPT !.k = @ + 1]
                 ELSE IF selected_column = <<>> THEN Return(seen, Ret(FALSE))
                 ELSE IF Len(selected_column) # 1
                 THEN Return(seen, Raise("AssertionError"))
                 ELSE [seen EXCEPT !.pc = "remove"])

\* Board.advance, col.remove_task(task_id), the assertion on its result and,
\* past the last column, the write to finished_tasks.txt
removeStep(t) ==
    /\ threads[t].pc = "remove"
    /\ MayRun(t)
    /\ LET th == threads[t]
           col == th.found[1]
           new_col == col + 1
           removed == ColumnRemoveTask(Cur, col, th.call.task_id)
           task == removed.value
       IN IF ~(task # None /\ new_col <= Len(m_columns) + 1)
          THEN Commit(t, removed.b, Return(th, Raise("AssertionError")))
          ELSE IF new_col <= Len(m_columns)
          THEN Commit(t, removed.b,
                      [th EXCEPT !.pc = "add", !.task = task, !.dest = new_col])
          ELSE Commit(t, [removed.b EXCEPT !.sink =
                             Append(@, SinkEntry(removed.b.heap[task]))],
                      Return(th, Ret(TRUE)))

\* what follows the list of col.remove_task results in Board.remove_task
\* and in Board.move_task
AfterRemoveAll(th) ==
    IF th.call.name = "removeTask"
    THEN IF Len(th.found) # 1 THEN Return(th, Raise("AssertionError"))
         ELSE Return(th, Ret(Len(th.found) > 0))
    ELSE IF th.found = <<>> THEN Return(th, Ret(FALSE))
    ELSE IF Len(th.found) # 1 THEN Return(th, Raise("AssertionError"))
    ELSE IF PyIndex(th.call.column_id, Len(m_columns)) = 0
    THEN Return(th, Raise("IndexError"))
    ELSE [th EXCEPT !.pc = "add", !.task = th.found[1],
                    !.dest = PyIndex(th.call.column_id, Len(m_columns))]

\* Board.move_task and Board.remove_task, one col.remove_task(task_id) of
\* the list comprehension
removeAllStep(t) ==
    /\ threads[t].pc = "removeAll"
    /\ MayRun(t)
    /\ LET th == threads[t]
           removed == ColumnRemoveTask(Cur, th.k, th.call.task_id)
           tasks == IF removed.value # None
                    THEN Append(th.found, removed.value) ELSE th.found
           seen == [th EXCEPT !.found = tasks]
       IN Commit(t, removed.b,
                 IF th.k < Len(m_columns) THEN [seen EXCEPT !.k = @ + 1]
                 ELSE AfterRemoveAll(seen))

\* Board.advance and Board.move_task, the add_task(task) that ends the call
addStep(t) ==
    /\ threads[t].pc = "add"
    /\ MayRun(t)
    /\ Commit(t, ColumnAddTask(Cur, threads[t].dest, threads[t].task).b,
              Return(threads[t], Ret(TRUE)))

\* the host's choice: the board as it is, or behind one coarse lock
InitThreads ==
    /\ LAST_TASK_ID = 0
    /\ heap = <<>>
    /\ m_columns = [i \in 1..NumColumns |-> ColumnInit(ColumnNames[i])]
    /\ sink = <<>>
    /\ op = Idle
    /\ ret = Ret(FALSE)
    /\ disk = NoFile
    /\ threads = [t \in Threads |-> NotStarted]
    /\ lock \in {NoLock, [NoLock EXCEPT !.coarse = TRUE]}

\* a board filled by ADD and ADVANCE, then two callers, one call each
NextThreads ==
    \/ NoneStarted /\ prompt
    \/ NoneStarted /\ \E name \in TaskNames : createTask(name)
    \/ NoneStarted /\ \E task_id \in TaskIds : advanceTask(task_id)
    \/ \E t \in Threads, task_id \in TaskIds :
          \/ begin(t, "advance", 0, task_id)
          \/ begin(t, "removeTask", 0, task_id)
          \/ \E column_id \in 0..NumColumns - 1 :
                begin(t, "moveTask", column_id, task_id)
    \/ \E t \in Threads : containsStep(t)
    \/ \E t \in Threads : removeStep(t)
    \/ \E t \in Threads : removeAllStep(t)
    \/ \E t \in Threads : addStep(t)

SpecThreads == InitThreads /\ [][NextThreads]_vars

TypeOK ==
    /\ LAST_TASK_ID \in 0..MaxTasks
    /\ Len(heap) <= LAST_TASK_ID
    /\ Bounded(Cur)
    /\ Len(m_columns) = NumColumns

\* ------------------------------------------------------------ properties
Cols == 1..NumColumns

\* positions <<column, index>> of the board `cols` that hold task id `id`
Occurrences(cols, h, id) ==
    {p \in Cols \X (1..MaxTasks + 1) :
        /\ p[2] <= Len(cols[p[1]].m_tasks)
        /\ h[cols[p[1]].m_tasks[p[2]]].m_id = id}

OnBoard(cols, h, id) == Occurrences(cols, h, id) # {}

\* the ids of the tasks of column c, in column order
IdsIn(cols, h, c) ==
    [i \in 1..Len(cols[c].m_tasks) |-> h[cols[c].m_tasks[i]].m_id]

RefsOf(h, id) == {r \in 1..Len(h) : h[r].m_id = id}

Returned(v) == ret.raised = "None" /\ ret.value = v

\* C1: each task id occurs in at most one column, and at most once in it,
\* in every state reachable by createTask, advance, moveTask, removeTask
\* and cleanCompleted.
C1_SingleLocation ==
    \A id \in TaskIds : Cardinality(Occurrences(m_columns, heap, id)) <= 1

\* two tasks share a column after one of them was moved there
C1_Witness ==
    /\ op.name = "moveTask"
    /\ Returned(TRUE)
    /\ \E c \in Cols : Len(m_columns[c].m_tasks) = 2 /\ c # 1

\* C2: a step never shortens a history; a placement of a task (creation
\* into column 0, advance into the next column, moveTask) appends exactly
\* one entry naming the entered column, nothing else changes a history,
\* and every task on the board has a history of length >= 1.
Placed(r) ==
    /\ ret'.raised = "None"
    /\ \/ op'.name = "createTask"
       \/ op'.name \in {"advance", "moveTask"} /\ ret'.value = TRUE
    /\ heap'[r].m_id = op'.task_id
    /\ \E c \in Cols : InSeq(r, m_columns'[c].m_tasks)

EnteredName(r) ==
    m_columns'[CHOOSE c \in Cols : InSeq(r, m_columns'[c].m_tasks)].m_name

HistoryBefore(r) == IF r <= Len(heap) THEN heap[r].m_messages ELSE <<>>

C2_HistoryStep ==
    /\ Len(heap') >= Len(heap)
    /\ \A r \in 1..Len(heap') :
          /\ Len(heap'[r].m_messages) >= Len(HistoryBefore(r))
          /\ IF Placed(r)
             THEN heap'[r].m_messages =
                    Append(HistoryBefore(r), "> " \o EnteredName(r) \o " : ")
             ELSE heap'[r].m_messages = HistoryBefore(r)
          /\ (\E c \in Cols : InSeq(r, m_columns'[c].m_tasks))
                => Len(heap'[r].m_messages) >= 1

C2_HistoryAppendOnly == [][C2_HistoryStep]_vars

\* a task that was created, then advanced: two entries, the second names
\* the second column
C2_Witness ==
    /\ op.name = "advance"
    /\ Returned(TRUE)
    /\ \E r \in 1..Len(heap) :
          /\ heap[r].m_id = op.task_id
          /\ InSeq(r, m_columns[2].m_tasks)
          /\ Len(heap[r].m_messages) = 2

\* C3: the ids handed out are distinct and strictly increasing in creation
\* order, starting at the counter value 0, and a created task never gets
\* the id of an earlier task, on or off the board.
C3_CreateStep ==
    op'.name = "createTask" /\ Len(heap') = Len(heap) + 1
        => /\ \A r \in 1..Len(heap) : heap[r].m_id < heap'[Len(heap')].m_id
           /\ heap'[Len(heap')].m_id = LAST_TASK_ID
           /\ LAST_TASK_ID' > LAST_TASK_ID
           /\ ret' = Ret(LAST_TASK_ID)

C3_MonotonicIds ==
    [][/\ C3_CreateStep
       /\ LAST_TASK_ID' >= LAST_TASK_ID
       /\ \A r \in 1..Len(heap) : heap'[r].m_id = heap[r].m_id
       /\ \A r1, r2 \in 1..Len(heap') :
             r1 < r2 => heap'[r1].m_id < heap'[r2].m_id
       /\ Len(heap') >= 1 => heap'[1].m_id = 0]_vars

\* a task created after an earlier one has left the board
C3_Witness ==
    /\ op.name = "createTask"
    /\ Len(heap) >= 2
    /\ \E id \in TaskIds :
          /\ id < op.task_id
          /\ ~OnBoard(m_columns, heap, id)
    /\ ret = Ret(op.task_id)

\* the board without task id `id`: every column keeps its other tasks, in order
Without(cols, h, id) ==
    [c \in Cols |-> [cols[c] EXCEPT !.m_tasks =
                        SelectSeq(@, LAMBDA r : h[r].m_id # id)]]

\* what the sink is told about task id `id` of heap h
Notification(h, id) ==
    LET r == CHOOSE x \in RefsOf(h, id) : TRUE
    IN [line |-> ToString(id) \o ". " \o h[r].m_name,
        messages |-> h[r].m_messages]

\* C4: advance(t) on a task t of the last column returns true, leaves t in
\* no column, tells the sink exactly once, with t's display string and its
\* whole history in order, and changes no other task and no other column.
C4_TerminalStep ==
    LET t == op'.task_id
    IN op'.name = "advance" /\ InSeq(t, IdsIn(m_columns, heap, NumColumns))
         => /\ ret' = Ret(TRUE)
            /\ ~OnBoard(m_columns', heap', t)
            /\ sink' = Append(sink, Notification(heap, t))
            /\ m_columns' = Without(m_columns, heap, t)
            /\ heap' = heap

C4_TerminalAdvance == [][C4_TerminalStep]_vars

\* a task with a two-entry history has just been advanced out of the last
\* column while another task stays on the board
C4_Witness ==
    /\ op.name = "advance"
    /\ op.owners = <<NumColumns - 1>>
    /\ Returned(TRUE)
    /\ Len(sink) >= 1
    /\ Len(sink[Len(sink)].messages) = 2
    /\ ~OnBoard(m_columns, heap, op.task_id)
    /\ \E id \in TaskIds : OnBoard(m_columns, heap, id)

\* C5: advance(t) on a task t of column i, i + 1 a valid index, returns true
\* and leaves t in column i + 1 and in no other column, with no sink
\* notification; and advance returns true exactly when some column held t
\* before the call.
C5_AdvanceStep ==
    LET t == op'.task_id
    IN op'.name = "advance"
         => /\ \A i \in 1..NumColumns - 1 :
                  InSeq(t, IdsIn(m_columns, heap, i))
                    => /\ ret' = Ret(TRUE)
                       /\ InSeq(t, IdsIn(m_columns', heap', i + 1))
                       /\ \A c \in Cols \ {i + 1} :
                             ~InSeq(t, IdsIn(m_columns', heap', c))
                       /\ Cardinality(Occurrences(m_columns', heap', t)) = 1
                       /\ sink' = sink
            /\ ret'.raised = "None"
            /\ ret'.value = OnBoard(m_columns, heap, t)

C5_NonTerminalAdvance == [][C5_AdvanceStep]_vars

\* a task has just been advanced from the first column into the second
C5_Witness ==
    /\ op.name = "advance"
    /\ op.owners = <<0>>
    /\ Returned(TRUE)
    /\ InSeq(op.task_id, IdsIn(m_columns, heap, 2))

\* C6: cleanCompleted with k tasks in the last column returns k, leaves the
\* last column empty, tells the sink exactly once for each of the k tasks,
\* and changes no other column.
C6_CleanStep ==
    LET last == IdsIn(m_columns, heap, NumColumns)
        k == Len(last)
    IN op'.name = "cleanCompleted"
         => /\ ret' = Ret(k)
            /\ m_columns'[NumColumns].m_tasks = <<>>
            /\ sink' = sink \o [i \in 1..k |-> Notification(heap, last[i])]
            /\ \A c \in Cols \ {NumColumns} : m_columns'[c] = m_columns[c]
            /\ heap' = heap

C6_CleanCompleted == [][C6_CleanStep]_vars

\* cleanCompleted has just emptied a last column that held two tasks
C6_Witness ==
    /\ op.name = "cleanCompleted"
    /\ Returned(2)
    /\ Len(sink) = 2
    /\ m_columns[NumColumns].m_tasks = <<>>

\* a moveTask(c, t) step with c a column index and t in that column
SameColumnMove ==
    /\ op'.name = "moveTask"
    /\ op'.column_id \in 0..NumColumns - 1
    /\ InSeq(op'.task_id, IdsIn(m_columns, heap, op'.column_id + 1))

\* C7 as stated: moveTask(c, t) with t in column c returns true and leaves
\* every column, every position and every history as they were.
C7_Original ==
    [][SameColumnMove
         => /\ ret' = Ret(TRUE)
            /\ m_columns' = m_columns
            /\ heap' = heap
            /\ Cardinality(Occurrences(m_columns', heap', op'.task_id)) = 1]_vars

\* C7 amended: moveTask(c, t) with t in column c returns true and does not
\* duplicate t; t stays in column c but becomes its last task, t's history
\* gains one entry naming column c, and every other task keeps its column,
\* its order relative to the others and its history.
C7_SameColumnStep ==
    LET t == op'.task_id
        c == op'.column_id + 1
        r == CHOOSE x \in RefsOf(heap, t) : TRUE
        rest == Without(m_columns, heap, t)
    IN SameColumnMove
         => /\ ret' = Ret(TRUE)
            /\ Cardinality(Occurrences(m_columns', heap', t)) = 1
            /\ m_columns' = [rest EXCEPT ![c].m_tasks = Append(@, r)]
            /\ heap' = [heap EXCEPT ![r].m_messages =
                           Append(@, "> " \o m_columns[c].m_name \o " : ")]
            /\ sink' = sink

C7_SameColumnMove == [][C7_SameColumnStep]_vars

\* the first of two tasks of column 0 was moved to column 0: it is now behind
\* the other one and has two entries
C7_Witness ==
    /\ op.name = "moveTask"
    /\ op.column_id = 0
    /\ op.owners = <<0>>
    /\ Returned(TRUE)
    /\ Len(m_columns[1].m_tasks) = 2
    /\ heap[m_columns[1].m_tasks[2]].m_id = op.task_id
    /\ heap[m_columns[1].m_tasks[2]].m_id < heap[m_columns[1].m_tasks[1]].m_id
    /\ Len(heap[m_columns[1].m_tasks[2]].m_messages) = 2

BoardUnchanged ==
    /\ m_columns' = m_columns
    /\ heap' = heap
    /\ sink' = sink

\* C9: removeTask(id) for an id that is in no column returns false as an
\* ordinary value, raising nothing, and leaves the board unchanged.
C9_RemoveAbsent ==
    [][op'.name = "removeTask" /\ ~OnBoard(m_columns, heap, op'.task_id)
         => ret' = Ret(FALSE) /\ BoardUnchanged]_vars

\* C10: advance(id) and moveTask(c, id) for an id that is in no column
\* return false and leave every column and every history unchanged, with
\* no sink notification.
C10_AbsentStep ==
    op'.name \in {"advance", "moveTask"} /\ ~OnBoard(m_columns, heap, op'.task_id)
        => ret' = Ret(FALSE) /\ BoardUnchanged

C10_NotFound == [][C10_AbsentStep]_vars

\* moveTask to a valid column was called for a task that had left the board
\* through a terminal advance
C10_Witness ==
    /\ op.name = "moveTask"
    /\ op.column_id \in 0..NumColumns - 1
    /\ op.owners = <<>>
    /\ Returned(FALSE)
    /\ op.task_id < LAST_TASK_ID
    /\ \E i \in 1..Len(sink) : sink[i] = Notification(heap, op.task_id)

\* C8: addTask and moveTask with a column index outside [0, columnCount),
\* too large or negative, return false and leave the board unchanged (a
\* task named in a failed moveTask keeps its column, position and history).
C8_InvalidDestination ==
    [][op'.name \in {"addTask", "moveTask"}
          /\ op'.column_id \notin 0..NumColumns - 1
         => ret' = Ret(FALSE) /\ BoardUnchanged]_vars

\* C11: Board.addTask(c, task) with a valid index c and task already in
\* column c returns false, adds no second copy and appends no history entry.
C11_DuplicatePlacement ==
    [][(/\ op'.name = "addTask"
        /\ op'.column_id \in 0..NumColumns - 1
        /\ InSeq(op'.task_id, IdsIn(m_columns, heap, op'.column_id + 1)))
         => ret' = Ret(FALSE) /\ BoardUnchanged]_vars

\* C12: removeTask(t) on a task t of the board returns true, removes exactly
\* that one task from the column holding it, tells the sink nothing, and
\* leaves every other task's column, order and history unchanged.
C12_RemoveStep ==
    LET t == op'.task_id
    IN op'.name = "removeTask" /\ OnBoard(m_columns, heap, t)
         => /\ ret' = Ret(TRUE)
            /\ Cardinality(Occurrences(m_columns, heap, t)) = 1
            /\ ~OnBoard(m_columns', heap', t)
            /\ m_columns' = Without(m_columns, heap, t)
            /\ \A c \in Cols :
                  Len(m_columns'[c].m_tasks) >= Len(m_columns[c].m_tasks) - 1
            /\ heap' = heap
            /\ sink' = sink

C12_RemoveTask == [][C12_RemoveStep]_vars

\* the first of two tasks of a column has just been removed, the other one
\* is still there
C12_Witness ==
    /\ op.name = "removeTask"
    /\ Len(op.owners) = 1
    /\ Returned(TRUE)
    /\ ~OnBoard(m_columns, heap, op.task_id)
    /\ \E c \in Cols :
          /\ op.owners[1] = c - 1
          /\ Len(m_columns[c].m_tasks) = 1
          /\ heap[m_columns[c].m_tasks[1]].m_id > op.task_id
    /\ sink = <<>>

\* C13: a task id that has left the board (removeTask, terminal advance) is
\* in no column in any later state, whatever engine operations follow, and
\* so no task id is told to the sink more than once.
Gone(cols, h, last, id) == id < last /\ ~OnBoard(cols, h, id)

C13_GoneStep ==
    /\ \A id \in TaskIds :
          Gone(m_columns, heap, LAST_TASK_ID, id)
            => Gone(m_columns', heap', LAST_TASK_ID', id)
    /\ \A i, j \in 1..Len(sink') : i # j => sink'[i].line # sink'[j].line
    /\ \A i \in 1..Len(sink') :
          \E id \in TaskIds : /\ Gone(m_columns', heap', LAST_TASK_ID', id)
                              /\ sink'[i] = Notification(heap', id)

C13_GoneIsAbsorbing == [][C13_GoneStep]_vars

\* one task has left through removeTask and one through a terminal advance,
\* and a later moveTask to a valid column has not brought the first one back
C13_Witness ==
    /\ op.name = "moveTask"
    /\ op.column_id \in 0..NumColumns - 1
    /\ Gone(m_columns, heap, LAST_TASK_ID, op.task_id)
    /\ Len(sink) = 1
    /\ sink[1] # Notification(heap, op.task_id)
    /\ \A id \in 0..LAST_TASK_ID - 1 : ~OnBoard(m_columns, heap, id)
    /\ LAST_TASK_ID = 2

\* the columns that hold task id `id`
ColumnsOf(cols, h, id) == {c \in Cols : InSeq(id, IdsIn(cols, h, c))}

\* C17: whatever Board operations are called - addTask with any task, new
\* or already placed, and any index, moveTask, advance, removeTask,
\* cleanCompleted - no task is ever found in more than one column.
C17_BoardClosure ==
    \A id \in TaskIds : Cardinality(ColumnsOf(m_columns, heap, id)) <= 1

\* C18: a task placed by create, advance or moveTask becomes the last task
\* of the destination column, and no operation changes the relative order
\* of the other tasks within any column.
LastOf(cols, h, id) ==
    \E c \in Cols :
        /\ cols[c].m_tasks # <<>>
        /\ h[cols[c].m_tasks[Len(cols[c].m_tasks)]].m_id = id

\* the task id the step is about (none for cleanCompleted and the prompt)
Operand ==
    IF op'.name \in {"createTask", "advance", "moveTask", "removeTask"}
    THEN {op'.task_id} ELSE {}

\* the other tasks of column c that are in column c before and after the step
StayingBefore(c) ==
    SelectSeq(m_columns[c].m_tasks,
              LAMBDA r : /\ InSeq(r, m_columns'[c].m_tasks)
                         /\ heap[r].m_id \notin Operand)

StayingAfter(c) ==
    SelectSeq(m_columns'[c].m_tasks,
              LAMBDA r : /\ InSeq(r, m_columns[c].m_tasks)
                         /\ heap'[r].m_id \notin Operand)

C18_OrderStep ==
    LET t == op'.task_id
    IN /\ \A c \in Cols : StayingAfter(c) = StayingBefore(c)
       /\ op'.name \in {"createTask", "advance", "moveTask", "removeTask"}
             => Without(m_columns', heap', t) = Without(m_columns, heap, t)
       /\ (/\ ret'.raised = "None"
           /\ \/ op'.name = "createTask"
              \/ op'.name \in {"advance", "moveTask"} /\ ret'.value = TRUE
           /\ OnBoard(m_columns', heap', t))
             => LastOf(m_columns', heap', t)

C19_AssertStep ==
    LET t == op'.task_id
    IN /\ op'.name \in {"advance", "moveTask", "cleanCompleted"}
             => ret'.raised # "AssertionError"
       /\ (op'.name \in {"advance", "moveTask"} /\ OnBoard(m_columns, heap, t))
             => /\ Cardinality(ColumnsOf(m_columns, heap, t)) = 1
                /\ Cardinality(RefsOf(heap, t)) = 1
                /\ \A c \in ColumnsOf(m_columns, heap, t) : c + 1 <= NumColumns + 1

C19_AssertionsHold == [][C19_AssertStep]_vars

\* advance has evaluated its assertions for a task of the last column, where
\* ownerIndex + 1 = columnCount
C19_Witness ==
    /\ op.name = "advance"
    /\ op.owners = <<NumColumns - 1>>
    /\ ret.raised = "None"
    /\ ret.value = TRUE
    /\ \E id \in TaskIds : id # op.task_id /\ OnBoard(m_columns, heap, id)
    /\ Len(sink) = 1

\* the display strings of column c, in the column's task order
Displayed(c) ==
    [i \in 1..Len(m_columns[c].m_tasks) |->
        ToString(heap[m_columns[c].m_tasks[i]].m_id) \o ". "
            \o heap[m_columns[c].m_tasks[i]].m_name]

DistinctNames ==
    \A i, j \in Cols : i # j => m_columns[i].m_name # m_columns[j].m_name

\* C14: with distinct column names, the k-th key of contents() is the name
\* of column k (index 0 first) and its value is that column's display
\* strings in the column's task order.
C14_ContentsInColumnOrder ==
    [][op'.name = "contents" /\ DistinctNames
         => /\ ret'.raised = "None"
            /\ Len(ret'.value) = NumColumns
            /\ \A k \in Cols :
                  /\ ret'.value[k].key = m_columns[k].m_name
                  /\ ret'.value[k].value = Displayed(k)]_vars

\* columns i < j with the same name
SameName(i, j) == i < j /\ m_columns[i].m_name = m_columns[j].m_name

\* C15 as stated: when two columns have the same name, the value stored
\* under that name in contents() is the task list of the later column.
C15_Original ==
    [][op'.name = "contents"
         => \A i, j \in Cols :
              (SameName(i, j) /\ ~\E l \in Cols : SameName(j, l))
                => \A k \in 1..Len(ret'.value) :
                      ret'.value[k].key = m_columns[j].m_name
                        => ret'.value[k].value = Displayed(j)]_vars

\* C15 amended: when two columns have the same name, the value stored under
\* that name in contents() is the task list of the earliest column with that
\* name (lowest index), and the name is a key exactly once.
C15_ContentsStep ==
    op'.name = "contents"
      => \A i, j \in Cols :
           (SameName(i, j) /\ ~\E l \in Cols : SameName(l, i))
             => /\ \E k \in 1..Len(ret'.value) :
                      ret'.value[k].key = m_columns[i].m_name
                /\ \A k \in 1..Len(ret'.value) :
                      ret'.value[k].key = m_columns[i].m_name
                        => ret'.value[k].value = Displayed(i)
                /\ \A k, l \in 1..Len(ret'.value) :
                      ret'.value[k].key = ret'.value[l].key => k = l

C15_DuplicateNames == [][C15_ContentsStep]_vars

\* contents() was called on a board whose first two columns share a name and
\* hold different tasks
C15_Witness ==
    /\ op.name = "contents"
    /\ ret.raised = "None"
    /\ m_columns[1].m_name = m_columns[2].m_name
    /\ m_columns[1].m_tasks # <<>>
    /\ m_columns[2].m_tasks # <<>>
    /\ \E k \in 1..Len(ret.value) :
          /\ ret.value[k].key = m_columns[1].m_name
          /\ ret.value[k].value = Displayed(1)
          /\ ret.value[k].value # Displayed(2)

\* what a board shows: for every column its name and its tasks, each with
\* its id, name and history, whatever objects hold them
View(cols, h) ==
    [c \in 1..Len(cols) |->
        [m_name |-> cols[c].m_name,
         tasks |-> [i \in 1..Len(cols[c].m_tasks) |-> h[cols[c].m_tasks[i]]]]]

SameResult(r1, r2) ==
    /\ r1.ret = r2.ret
    /\ r1.b.sink = r2.b.sink
    /\ View(r1.b.cols, r1.b.heap) = View(r2.b.cols, r2.b.heap)

\* every operation gives the same result on Reloaded, the counter and board
\* that a load of what save writes now would leave, as on the board itself.
\* C16_Step compares at the save that finds the file already equal to what it
\* writes: every reachable board can be saved twice in a row, so every
\* reachable board is compared, once.
SameBehaviour ==
    \A Reloaded \in {KanbanLoad(LAST_TASK_ID, Cur, KanbanSave(LAST_TASK_ID, Cur).disk)} :
        /\ Reloaded.ret = Ret(TRUE)
        /\ Reloaded.last = LAST_TASK_ID
        /\ /\ \A task_id \in TaskIds :
                 /\ SameResult(BoardAdvance(Cur, task_id),
                               BoardAdvance(Reloaded.b, task_id))
                 /\ SameResult(BoardRemoveTask(Cur, task_id),
                               BoardRemoveTask(Reloaded.b, task_id))
                 /\ \A column_id \in ColumnIds :
                       SameResult(BoardMoveTask(Cur, column_id, task_id),
                                  BoardMoveTask(Reloaded.b, column_id, task_id))
           /\ SameResult(BoardCleanCompleted(Cur), BoardCleanCompleted(Reloaded.b))
           /\ \A name \in TaskNames :
                 LET t1 == TaskNew(Cur, LAST_TASK_ID, name)
                     t2 == TaskNew(Reloaded.b, Reloaded.last, name)
                 IN /\ t1.last = t2.last
                    /\ t1.b.heap[t1.ref] = t2.b.heap[t2.ref]
                    /\ SameResult(BoardAddTask(t1.b, 0, t1.ref),
                                  BoardAddTask(t2.b, 0, t2.ref))

C16_Step ==
    /\ op'.name = "save"
          => /\ ret' = Ret(TRUE)
             /\ disk'.exists
             /\ disk'.last = LAST_TASK_ID
             /\ View(disk'.cols, disk'.objs) = View(m_columns, heap)
             /\ BoardUnchanged
             /\ LAST_TASK_ID' = LAST_TASK_ID
    /\ op'.name = "save" /\ disk' = disk
          => SameBehaviour
    /\ op'.name \in {"load", "start"} /\ disk.exists
          => /\ ret' = Ret(TRUE)
             /\ LAST_TASK_ID' = disk.last
             /\ View(m_columns', heap') = View(disk.cols, disk.objs)
             /\ disk' = disk
    /\ op'.name = "load" /\ ~disk.exists
          => /\ ret' = Ret(FALSE)
             /\ BoardUnchanged
             /\ LAST_TASK_ID' = LAST_TASK_ID
    /\ op'.name = "createTask" /\ ret'.raised = "None"
          => ~OnBoard(m_columns, heap, ret'.value)

\* C16: save writes the id counter and the whole board (columns in order,
\* each column's task order, each task's id, name and history), load restores
\* exactly these, every operation gives the same result and state on the
\* reloaded board as on the board that was never saved, and a task created
\* afterwards gets an id that is not on the board.
C16_RoundTrip == [][C16_Step]_vars

\* a load has restored a board that holds a task with two history entries,
\* written by a process in which another task had already left the board
C16_Witness ==
    /\ op.name = "load"
    /\ ret.raised = "None"
    /\ ret.value = TRUE
    /\ Len(heap) < LAST_TASK_ID
    /\ View(m_columns, heap) = View(disk.cols, disk.objs)
    /\ \E c \in Cols : \E i \in 1..Len(m_columns[c].m_tasks) :
          Len(heap[m_columns[c].m_tasks[i]].m_messages) >= 2

\* a call ended in a failed assertion
AssertionFailed ==
    \E t \in Threads : threads[t].ret.raised = "AssertionError"

\* a task is on the board twice
Duplicated ==
    \E id \in TaskIds : Cardinality(Occurrences(m_columns, heap, id)) > 1

\* every call has returned and the task the callers worked on is nowhere:
\* not on the board, not removed by removeTask, not written to the sink
Lost ==
    /\ ~NoneStarted
    /\ \A t \in Threads : threads[t].pc \in {"idle", "done"}
    /\ \E t \in Threads :
          /\ threads[t].pc = "done"
          /\ ~OnBoard(m_columns, heap, threads[t].call.task_id)
          /\ ~\E u \in Threads :
                threads[u].call.name = "removeTask" /\ threads[u].found # <<>>
          /\ ~\E r \in 1..Len(heap) :
                /\ heap[r].m_id = threads[t].call.task_id
                /\ InSeq(SinkEntry(heap[r]), sink)

Bad == AssertionFailed \/ Duplicated \/ Lost

\* C20: when each whole-board operation (advance, moveTask, removeTask) of
\* two callers working on the same task id runs atomically under one coarse
\* lock, no bad state is reachable: no assertion fails and the task is
\* neither lost nor duplicated.
C20_CoarseLockSafe == lock.coarse => ~Bad

\* without the lock, a caller's removeTask fails its assertion although the
\* task is on the board: the other caller moved it behind the scan
InterleavedOnly ==
    ~(/\ ~lock.coarse
      /\ \E t \in Threads :
            /\ threads[t].call.name = "removeTask"
            /\ threads[t].ret.raised = "AssertionError"
            /\ OnBoard(m_columns, heap, threads[t].call.task_id))

\* under the lock an assertion fails only in a removeTask that was called
\* when the task had already left the board
LockedFailure ==
    lock.coarse =>
        \A t \in Threads :
            threads[t].ret.raised = "AssertionError"
              => /\ threads[t].call.name = "removeTask"
                 /\ threads[t].call.owners = <<>>
                 /\ ~Duplicated /\ ~Lost
====
